---- MODULE Spec2Model ----
(***************************************************************************)
(* Device-metric interpretation of the Linux kernel monitor TUI.           *)
(*                                                                         *)
(* The repository holds two programs with the same renderer loop:          *)
(*   src/main.cpp          the "v2 OOP" monitor: a vector of Sensor        *)
(*                         drivers (Thermal, Network, Power), first        *)
(*                         compatible driver renders;                      *)
(*   src/unnamed/part_000  the first monitor: render_metric, an            *)
(*                         if / else-if chain over the same attributes.    *)
(* The variable program says which of the two is running.                  *)
(*                                                                         *)
(* Text is a sequence of one-character strings, so that getline, stof,     *)
(* to_string and substr are computed and not assumed.                      *)
(***************************************************************************)
EXTENDS Integers, Sequences, FiniteSets, TLC

VARIABLES
    program,            \* "main" (src/main.cpp) or "part_000" (src/unnamed/part_000)
    fs,                 \* the live device directory: attribute -> file
    selected_category,  \* int selected_category
    selected_device,    \* int selected_device
    devices,            \* std::vector<std::string> devices
    last_cat,           \* static int last_cat of the renderer
    view                \* the detail view the renderer produced last

vars == <<program, fs, selected_category, selected_device, devices, last_cat, view>>

-----------------------------------------------------------------------------
(* Bounds of the model *)

\* Largest millidegree value written to temp in SpecTemp.
MaxMilli == 120000
\* Most negative millidegree value written to temp in SpecTemp is -MaxBelowZero.
MaxBelowZero == 30000
\* Between the dense windows, every Stride-th millidegree value is taken.
Stride == 100
\* Every value within Window of a power of ten or of the alert threshold is taken.
Window == 12

-----------------------------------------------------------------------------
(* Text *)

Digits == <<"0", "1", "2", "3", "4", "5", "6", "7", "8", "9">>

IsDigit(c) == \E i \in 1..10 : Digits[i] = c

DigitVal(c) == (CHOOSE i \in 1..10 : Digits[i] = c) - 1

\* isspace() of the "C" locale.
IsSpace(c) == c \in {" ", "\n", "\t", "\r"}

RECURSIVE NatToStr(_)
NatToStr(n) ==
    IF n < 10 THEN <<Digits[n + 1]>>
    ELSE Append(NatToStr(n \div 10), Digits[(n % 10) + 1])

\* The decimal text of an integer, as the kernel prints a millidegree value.
IntToStr(m) == IF m < 0 THEN <<"-">> \o NatToStr(-m) ELSE NatToStr(m)

\* std::string::substr(pos, n): at most n characters from position pos (0-based).
substr(s, pos, n) ==
    SubSeq(s, pos + 1, IF pos + n > Len(s) THEN Len(s) ELSE pos + n)

RECURSIVE Pow2(_)
Pow2(k) == IF k = 0 THEN 1 ELSE 2 * Pow2(k - 1)

RECURSIVE Pad(_, _)
Pad(s, n) == IF Len(s) >= n THEN s ELSE Pad(<<"0">> \o s, n)

-----------------------------------------------------------------------------
(* IEEE-754 binary32 ("float"), as far as the monitor uses it.              *)
(* A float is [neg, mant, exp]: the value (-1)^neg * mant / 2^exp, with     *)
(* mant = 0 or 2^23 <= mant < 2^24.                                         *)

MantMin == 8388608

MantMax == 16777216

\* Shift the quotient q (remainder r, divisor d) left until it has 24 bits.
RECURSIVE Normalize(_, _, _, _)
Normalize(q, r, d, e) ==
    IF q >= MantMin THEN [q |-> q, r |-> r, e |-> e]
    ELSE Normalize(2 * q + (IF 2 * r >= d THEN 1 ELSE 0), (2 * r) % d, d, e + 1)

\* n / d for naturals n < 2^24 and d > 0, rounded to the nearest float, ties to even.
FloatDiv(n, d) ==
    IF n = 0 THEN [mant |-> 0, exp |-> 0]
    ELSE LET s == Normalize(n \div d, n % d, d, 0)
             up == (2 * s.r > d) \/ (2 * s.r = d /\ s.q % 2 = 1)
             q1 == IF up THEN s.q + 1 ELSE s.q
         IN IF q1 = MantMax THEN [mant |-> MantMin, exp |-> s.e - 1]
            ELSE [mant |-> q1, exp |-> s.e]

\* The float x / 1000.0f: the exact quotient rounded once.
DivBy1000(x) ==
    LET g == FloatDiv(x.mant, 1000)
    IN [neg |-> x.neg, mant |-> g.mant, exp |-> g.exp + x.exp]

\* GreaterThan60 with the comparison written >=.
GreaterOrEqual60(x) ==
    /\ ~x.neg
    /\ x.exp < 24
    /\ x.mant >= 60 * Pow2(x.exp)

\* The comparison temp > 60 (60 is converted to 60.0f, which is exact).
GreaterThan60(x) ==
    /\ ~x.neg
    /\ x.exp < 24
    /\ x.mant > 60 * Pow2(x.exp)

\* Six decimal digits of the fraction a / 2^k, one at a time:
\* 10 * a / 2^k = 5 * a / 2^(k-1). A k of 31 or more means a < 2^k, digit 0.
RECURSIVE FracDigits(_, _, _, _)
FracDigits(a, k, left, acc) ==
    IF left = 0 THEN [micro |-> acc, a |-> a, k |-> k]
    ELSE IF k = 0 THEN FracDigits(0, 0, left - 1, acc * 10)
    ELSE LET a5 == a * 5
             k1 == k - 1
             dg == IF k1 >= 31 THEN 0 ELSE a5 \div Pow2(k1)
             rm == IF k1 >= 31 THEN a5 ELSE a5 % Pow2(k1)
         IN FracDigits(rm, k1, left - 1, acc * 10 + dg)

\* std::to_string(float): printf("%f") of the value, which is exact in double:
\* six decimals, rounded to nearest, ties to even.
to_string(x) ==
    LET ip == IF x.exp >= 31 THEN 0 ELSE x.mant \div Pow2(x.exp)
        fr == IF x.exp >= 31 THEN x.mant ELSE x.mant % Pow2(x.exp)
        fd == FracDigits(fr, x.exp, 6, 0)
        up == IF fd.k >= 31 THEN FALSE
              ELSE \/ 2 * fd.a > Pow2(fd.k)
                   \/ (2 * fd.a = Pow2(fd.k) /\ fd.micro % 2 = 1)
        tot == fd.micro + (IF up THEN 1 ELSE 0)
        ip2 == IF tot = 1000000 THEN ip + 1 ELSE ip
        mic == IF tot = 1000000 THEN 0 ELSE tot
    IN (IF x.neg THEN <<"-">> ELSE <<>>)
         \o NatToStr(ip2) \o <<".">> \o Pad(NatToStr(mic), 6)

\* Leading white space skipped, as strtof does.
RECURSIVE SkipSpace(_)
SkipSpace(s) == IF s # <<>> /\ IsSpace(Head(s)) THEN SkipSpace(Tail(s)) ELSE s

\* The longest prefix of decimal digits.
RECURSIVE DigitPrefix(_)
DigitPrefix(s) ==
    IF s # <<>> /\ IsDigit(Head(s)) THEN <<Head(s)>> \o DigitPrefix(Tail(s)) ELSE <<>>

RECURSIVE StrToNat(_, _)
StrToNat(s, acc) ==
    IF s = <<>> THEN acc ELSE StrToNat(Tail(s), acc * 10 + DigitVal(Head(s)))

\* std::stof(raw): strtof on the text, then invalid_argument when nothing was
\* converted. The texts of this model are over digits, sign, white space and the
\* letters a, b, c: over them strtof's grammar is [space] [sign] digits, and
\* whatever follows the digits is ignored. Values stay below 2^24, so the
\* conversion is exact and out_of_range cannot happen.
stof(raw) ==
    LET s == SkipSpace(raw)
        signed == s # <<>> /\ Head(s) \in {"-", "+"}
        body == IF signed THEN Tail(s) ELSE s
        dg == DigitPrefix(body)
    IN IF dg = <<>> THEN [thrown |-> TRUE, neg |-> FALSE, mant |-> 0, exp |-> 0]
       ELSE LET f == FloatDiv(StrToNat(dg, 0), 1)
            IN [thrown |-> FALSE, neg |-> (signed /\ Head(s) = "-"),
                mant |-> f.mant, exp |-> f.exp]

-----------------------------------------------------------------------------
(* The device directory *)

\* The attribute files the monitor looks at; rx_bytes is statistics/rx_bytes.
Attrs == {"temp", "type", "operstate", "address", "rx_bytes", "capacity", "status"}

\* A file that does not exist (or cannot be opened).
Absent == [exists |-> FALSE, data |-> <<>>]

File(text) == [exists |-> TRUE, data |-> text]

\* A directory without any of the attributes.
EmptyDir ==
    [temp |-> Absent, type |-> Absent, operstate |-> Absent, address |-> Absent,
     rx_bytes |-> Absent, capacity |-> Absent, status |-> Absent]

\* std::getline: the characters before the first line terminator.
RECURSIVE getline(_)
getline(data) ==
    IF data = <<>> \/ Head(data) = "\n" THEN <<>>
    ELSE <<Head(data)>> \o getline(Tail(data))

\* read_file: "" when the stream cannot be opened, else the first line.
read_file(dir, attr) ==
    IF ~dir[attr].exists THEN <<>> ELSE getline(dir[attr].data)

\* fs::exists(path + "/" + attr)
exists(dir, attr) == dir[attr].exists

-----------------------------------------------------------------------------
(* Display elements: one line of the detail view *)

\* text(label + value + suffix) | color(color); "Default" is the terminal's colour.
Line(label, value, suffix, color) ==
    [label |-> label, value |-> value, suffix |-> suffix, color |-> color]

\* What a call gives back: the lines of the element it returned, or an
\* exception on its way out.
Returned(lines) == [thrown |-> FALSE, lines |-> lines]

Thrown == [thrown |-> TRUE, lines |-> <<>>]

\* catch_all without the handler: the exception goes on to the caller.
catch_none(body, handler) == body

\* try { body } catch (...) { return handler; }
catch_all(body, handler) == IF body.thrown THEN Returned(handler) ELSE body

\* The hbox of "Temperature: " and the first four characters of to_string(temp).
TemperatureLine(temp) ==
    Line("Temperature: ", substr(to_string(temp), 0, 4), " °C",
         IF GreaterThan60(temp) THEN "Red" ELSE "Green")

-----------------------------------------------------------------------------
(* src/main.cpp: the Sensor drivers *)

\* drivers with the network driver registered first.
drivers_network_first == <<"NetworkSensor", "ThermalSensor", "PowerSensor">>

drivers == <<"ThermalSensor", "NetworkSensor", "PowerSensor">>

\* is_compatible with a power driver that also claims a directory with status.
is_compatible_status(driver, dir) ==
    CASE driver = "ThermalSensor" -> exists(dir, "temp")
      [] driver = "NetworkSensor" -> exists(dir, "operstate")
      [] driver = "PowerSensor" -> exists(dir, "capacity") \/ exists(dir, "status")

is_compatible(driver, dir) ==
    CASE driver = "ThermalSensor" -> exists(dir, "temp")
      [] driver = "NetworkSensor" -> exists(dir, "operstate")
      [] driver = "PowerSensor" -> exists(dir, "capacity")

\* The try block of ThermalSensor::render.
ThermalSensor_try(dir, raw) ==
    LET parsed == stof(raw)
        temp == DivBy1000(parsed)
        type == read_file(dir, "type")
    IN IF parsed.thrown THEN Thrown
       ELSE IF type # <<>>
            THEN Returned(<<TemperatureLine(temp), Line("Sensor Type: ", type, "", "Default")>>)
            ELSE Returned(<<TemperatureLine(temp)>>)

ThermalSensor_handler == <<Line("Parse Error", <<>>, "", "Default")>>

ThermalSensor_render(dir) ==
    LET raw == read_file(dir, "temp")
    IN IF raw = <<>> THEN Returned(<<Line("Error reading temp", <<>>, "", "Default")>>)
       ELSE catch_all(ThermalSensor_try(dir, raw), ThermalSensor_handler)

NetworkSensor_render(dir) ==
    LET state == read_file(dir, "operstate")
        state_color == IF state = <<"u", "p">> THEN "Green" ELSE "Red"
        mac == read_file(dir, "address")
        rx == read_file(dir, "rx_bytes")
    IN Returned(<<Line("Link State: ", state, "", state_color)>>
                \o (IF mac # <<>> THEN <<Line("MAC: ", mac, "", "Default")>> ELSE <<>>)
                \o (IF rx # <<>> THEN <<Line("Data Rx: ", rx, " bytes", "Default")>> ELSE <<>>))

\* PowerSensor::render leaving out the status line when status reads "".
PowerSensor_render_skip_empty(dir) ==
    LET cap == read_file(dir, "capacity")
        status == read_file(dir, "status")
    IN Returned(<<Line("Battery Level: ", cap, "%", "Default")>>
                \o (IF status # <<>>
                    THEN <<Line("Status: ", status, "", "Default")>> ELSE <<>>))

PowerSensor_render(dir) ==
    LET cap == read_file(dir, "capacity")
        status == read_file(dir, "status")
    IN Returned(<<Line("Battery Level: ", cap, "%", "Default"),
                  Line("Status: ", status, "", "Default")>>)

render(driver, dir) ==
    CASE driver = "ThermalSensor" -> ThermalSensor_render(dir)
      [] driver = "NetworkSensor" -> NetworkSensor_render(dir)
      [] driver = "PowerSensor" -> PowerSensor_render(dir)

\* The renderer's loop over the drivers from index i on: the first compatible
\* driver renders and the loop breaks; with none, the default element stays.
\* The presence tests see the directory as probed, the reads as it is then.
RECURSIVE dispatch(_, _, _)
dispatch(i, probed, dir) ==
    IF i > Len(drivers)
    THEN Returned(<<Line("No driver matched for this device.", <<>>, "", "GrayLight")>>)
    ELSE IF is_compatible(drivers[i], probed) THEN render(drivers[i], dir)
    ELSE dispatch(i + 1, probed, dir)

detail_view(probed, dir) == dispatch(1, probed, dir)

-----------------------------------------------------------------------------
(* src/unnamed/part_000: render_metric *)

\* The try block of the thermal branch: what it appends to details.
thermal_try(dir, raw) ==
    LET parsed == stof(raw)
        temp == DivBy1000(parsed)
        type == read_file(dir, "type")
    IN IF parsed.thrown THEN Thrown
       ELSE Returned(<<TemperatureLine(temp)>>
                     \o (IF type # <<>>
                         THEN <<Line("Sensor Type: ", type, "", "Default")>> ELSE <<>>))

\* The details vector after the if / else-if chain.
details(probed, dir) ==
    IF exists(probed, "temp")
    THEN LET raw == read_file(dir, "temp")
         IN IF raw # <<>> THEN catch_all(thermal_try(dir, raw), <<>>)
            ELSE Returned(<<>>)
    ELSE IF exists(probed, "operstate")
    THEN LET state == read_file(dir, "operstate")
             state_color == IF state = <<"u", "p">> THEN "Green" ELSE "Red"
             mac == read_file(dir, "address")
             rx == read_file(dir, "rx_bytes")
         IN Returned(<<Line("Link State: ", state, "", state_color)>>
                \o (IF mac # <<>> THEN <<Line("MAC Address: ", mac, "", "Default")>> ELSE <<>>)
                \o (IF rx # <<>>
                    THEN <<Line("Total Data Rx: ", rx, " bytes", "Default")>> ELSE <<>>))
    ELSE IF exists(probed, "capacity")
    THEN LET cap == read_file(dir, "capacity")
             status == read_file(dir, "status")
         IN Returned(<<Line("Battery Level: ", cap, "%", "Default"),
                       Line("Status: ", status, "", "Default")>>)
    ELSE Returned(<<>>)

render_metric(probed, dir) ==
    LET d == details(probed, dir)
    IN IF d.thrown THEN d
       ELSE IF d.lines = <<>>
       THEN Returned(<<Line("No standard metrics found.", <<>>, "", "GrayLight")>>)
       ELSE d

-----------------------------------------------------------------------------
(* The tree under /sys/class that the monitor is run on *)

\* categories: index -> root; 0 thermal, 1 net, 2 power_supply, 3 leds.
categories == 0..3

\* Which roots exist on the machine: one without /sys/class/leds.
RootExists(c) == c \in 0..2

\* The entries of a root: the first root holds the live device directory
\* dev0, the other roots are empty.
Listing(c) == IF c = 0 THEN <<"dev0">> ELSE <<>>

\* operator< of the entry names.
NameLess(a, b) == FALSE

Placeholder ==
    IF program = "main" THEN "(Category not found)"
    ELSE "(Category not found on this system)"

\* The devices vector after refresh_devices() for category c.
refresh_devices(c) ==
    IF RootExists(c) THEN SortSeq(Listing(c), NameLess) ELSE <<Placeholder>>

\* current_root + "/" + current_device
FullPath(c, devs, i) ==
    [root |-> c, device |-> IF devs = <<>> THEN "" ELSE devs[i + 1]]

LivePath == [root |-> 0, device |-> "dev0"]

\* The directory at a path, given the live directory.
DirAt(path, live) == IF path = LivePath THEN live ELSE EmptyDir

-----------------------------------------------------------------------------
(* Contents of the attribute files *)

NL == <<"\n">>

\* An attribute that is only read (type, address, rx_bytes, status) reads ""
\* both when it is missing and when it is empty: those have one text each, and
\* status, for the empty file, two.
TempTexts ==
    { <<>>,
      <<"a", "b", "c">> \o NL,
      <<"4", "5", "0", "0", "0">> \o NL,
      <<"6", "5", "0", "0", "0">> \o NL }

TypeTexts == { <<"c", "p", "u">> \o NL }

OperstateTexts == { <<>>, <<"u", "p">> \o NL, <<"d", "o", "w", "n">> \o NL }

AddressTexts == { <<"0", "0", ":", "1", "1">> \o NL }

RxTexts == { <<"1", "2", "8">> \o NL }

CapacityTexts == { <<>>, <<"8", "7">> \o NL }

StatusTexts == { <<>>, <<"C", "h", "a", "r", "g", "i", "n", "g">> \o NL }

Texts(a) ==
    CASE a = "temp" -> TempTexts
      [] a = "type" -> TypeTexts
      [] a = "operstate" -> OperstateTexts
      [] a = "address" -> AddressTexts
      [] a = "rx_bytes" -> RxTexts
      [] a = "capacity" -> CapacityTexts
      [] a = "status" -> StatusTexts

Files(a) == {Absent} \cup {File(t) : t \in Texts(a)}

\* Every directory: a file or none for each attribute.
Dirs ==
    [temp : Files("temp"), type : Files("type"), operstate : Files("operstate"),
     address : Files("address"), rx_bytes : Files("rx_bytes"),
     capacity : Files("capacity"), status : Files("status")]

-----------------------------------------------------------------------------
(* The state machine *)

\* No detail view yet, or the directory changed since the last one.
NoView ==
    [shown |-> FALSE, path |-> LivePath, raced |-> "none", thrown |-> FALSE,
     probed |-> {}, lines |-> <<>>, prev |-> <<>>]

\* main(): the state when screen.Loop starts; refresh_devices() has run once.
StartUp ==
    /\ program \in {"main", "part_000"}
    /\ selected_category = 0
    /\ selected_device = 0
    /\ devices = refresh_devices(0)
    /\ last_cat = -1
    /\ view = NoView

Init ==
    /\ StartUp
    /\ fs \in Dirs

\* The category menu moves the selection.
SelectCategory(c) ==
    /\ ~view.thrown
    /\ c # selected_category
    /\ selected_category' = c
    /\ UNCHANGED <<program, fs, selected_device, devices, last_cat, view>>

\* Evaluate keeping the element of the last frame while the category is the
\* same, as the renderer keeps the device list.
Evaluate_cached(probed, dir) ==
    IF view.shown /\ last_cat = selected_category THEN Returned(view.lines)
    ELSE IF program = "main" THEN detail_view(probed, dir)
    ELSE render_metric(probed, dir)

\* The element the running program computes for a directory.
Evaluate(probed, dir) ==
    IF program = "main" THEN detail_view(probed, dir) ELSE render_metric(probed, dir)

\* The directory after the kernel removed attribute a ("none": nothing removed).
Without(dir, a) == IF a = "none" THEN dir ELSE [dir EXCEPT ![a] = Absent]

\* The attributes whose presence is tested.
KindAttrs == {"temp", "operstate", "capacity"}

\* The renderer lambda, drawn once. The kernel may remove one attribute of
\* the live directory between the presence tests and the reads (raced); for
\* an attribute that is only read this is a removal before the call.
renderer(raced) ==
    /\ ~view.thrown
    /\ raced = "none" \/ (raced \in KindAttrs /\ fs[raced].exists)
    /\ LET refresh == last_cat # selected_category
           devs == IF refresh THEN refresh_devices(selected_category) ELSE devices
           sel == IF refresh THEN 0 ELSE selected_device
           path == FullPath(selected_category, devs, sel)
           after == IF path = LivePath THEN Without(fs, raced) ELSE fs
           probed == DirAt(path, fs)
           result == Evaluate(probed, DirAt(path, after))
           again == view.shown /\ view.path = path /\ view.raced = "none"
                      /\ raced = "none"
       IN /\ raced # "none" => path = LivePath
          /\ devices' = devs
          /\ selected_device' = sel
          /\ last_cat' = selected_category
          /\ fs' = after
          /\ view' = [shown |-> TRUE, path |-> path, raced |-> raced,
                      thrown |-> result.thrown,
                      probed |-> {a \in Attrs : probed[a].exists},
                      lines |-> result.lines,
                      prev |-> IF again THEN view.lines ELSE <<>>]
    /\ UNCHANGED <<program, selected_category>>

\* The kernel writes an attribute of the live directory.
WriteAttr(a, text) ==
    /\ ~view.thrown
    /\ fs[a] # File(text)
    /\ fs' = [fs EXCEPT ![a] = File(text)]
    /\ view' = IF view.path = LivePath THEN NoView ELSE view
    /\ UNCHANGED <<program, selected_category, selected_device, devices, last_cat>>

\* The kernel removes an attribute of the live directory.
RemoveAttr(a) ==
    /\ ~view.thrown
    /\ fs[a].exists
    /\ fs' = [fs EXCEPT ![a] = Absent]
    /\ view' = IF view.path = LivePath THEN NoView ELSE view
    /\ UNCHANGED <<program, selected_category, selected_device, devices, last_cat>>

Next ==
    \/ \E c \in categories : SelectCategory(c)
    \/ \E raced \in KindAttrs \cup {"none"} : renderer(raced)
    \/ \E a \in Attrs : \E t \in Texts(a) : WriteAttr(a, t)
    \/ \E a \in Attrs : RemoveAttr(a)

Spec == Init /\ [][Next]_vars

-----------------------------------------------------------------------------
(* The specification of the temperature arithmetic: a thermal zone whose    *)
(* temp holds an integer number of millidegrees, with or without a type.    *)

\* The threshold of the colour: temp > 60.
AlertDegrees == 60

TempMillis ==
    {m \in (0 - MaxBelowZero)..MaxMilli :
        \/ m % Stride = 0
        \/ \E p \in {0, 10000, 1000 * AlertDegrees, 100000} : m - p \in (0 - Window)..Window}

InitTemp ==
    /\ StartUp
    /\ \E m \in TempMillis : \E t \in Files("type") :
          fs = [EmptyDir EXCEPT !.temp = File(IntToStr(m) \o NL), !.type = t]

NextTemp == \E raced \in KindAttrs \cup {"none"} : renderer(raced)

SpecTemp == InitTemp /\ [][NextTemp]_vars

-----------------------------------------------------------------------------
(* Vocabulary of the properties *)

\* The kind a display line belongs to, by its label.
LabelKind(label) ==
    CASE label \in {"Temperature: ", "Sensor Type: ", "Parse Error", "Error reading temp"}
            -> "Thermal"
      [] label \in {"Link State: ", "MAC: ", "Data Rx: ", "MAC Address: ", "Total Data Rx: "}
            -> "Network"
      [] label \in {"Battery Level: ", "Status: "} -> "Power"
      [] label \in {"No driver matched for this device.", "No standard metrics found."}
            -> "Unknown"

\* The first kind, in the order Thermal > Network > Power, whose attribute
\* was present at the presence tests of the last evaluation.
FirstKind ==
    IF "temp" \in view.probed THEN "Thermal"
    ELSE IF "operstate" \in view.probed THEN "Network"
    ELSE IF "capacity" \in view.probed THEN "Power"
    ELSE "Unknown"

\* The directory of the last evaluation as it was read: views of the live
\* directory are dropped when it changes.
ViewDir == DirAt(view.path, fs)

\* What an attribute read at the last evaluation.
Read(a) == read_file(ViewDir, a)

Labels == [i \in 1..Len(view.lines) |-> view.lines[i].label]

\* The text of line i without its colour.
LineText(i) == <<view.lines[i].label, view.lines[i].value, view.lines[i].suffix>>

OnLive == view.shown /\ view.path = LivePath

\* The integer written in temp.
MilliRead ==
    LET s == Read("temp")
    IN IF s # <<>> /\ Head(s) = "-" THEN 0 - StrToNat(Tail(s), 0) ELSE StrToNat(s, 0)

-----------------------------------------------------------------------------
(* The claims *)

C2_NoFaultNonEmpty ==
    /\ ~view.thrown
    /\ view.shown => Len(view.lines) >= 1

\* A thermal zone whose temp is not a number was evaluated.
C2_Witness ==
    /\ OnLive
    /\ "temp" \in view.probed
    /\ Read("temp") = <<"a", "b", "c">>
    /\ Len(view.lines) >= 1

\* C3: with none of temp, operstate, capacity present the evaluation gives
\* exactly one line, the de-emphasised "no metrics" indicator, whatever other
\* attributes exist.
C3_NoMetrics ==
    (view.shown /\ view.probed \cap KindAttrs = {}) =>
        /\ Len(view.lines) = 1
        /\ LabelKind(Labels[1]) = "Unknown"
        /\ view.lines[1].color = "GrayLight"

\* A directory with type, address, rx_bytes and status only was evaluated.
C3_Witness ==
    /\ OnLive
    /\ view.probed = {"type", "address", "rx_bytes", "status"}
    /\ Len(view.lines) = 1

\* C4: temp present with a non-empty first line that is not a number gives
\* exactly one line, "Parse Error", whatever type holds.
C4_ParseError ==
    (OnLive /\ "temp" \in view.probed /\ Read("temp") # <<>> /\ stof(Read("temp")).thrown) =>
        Labels = <<"Parse Error">>

\* C4 in the driver program alone.
C4_ParseError_main == program = "main" => C4_ParseError

\* C5: temp present at the presence test and read as "" (empty, unreadable or
\* removed in between) gives exactly the one line "Error reading temp".
C5_ErrorReadingTemp ==
    (OnLive /\ "temp" \in view.probed /\ Read("temp") = <<>>) =>
        Labels = <<"Error reading temp">>

\* C5 in the driver program alone.
C5_ErrorReadingTemp_main == program = "main" => C5_ErrorReadingTemp

\* C6: for every integer m of millidegrees in temp the temperature line is
\* "alert" (Red) exactly when m > 60000, and "normal" (Green) otherwise.
C6_AlertThreshold ==
    (OnLive /\ "temp" \in view.probed /\ Read("temp") # <<>>) =>
        /\ Labels[1] = "Temperature: "
        /\ view.lines[1].color = (IF MilliRead > 1000 * AlertDegrees THEN "Red" ELSE "Green")

\* The value just above the threshold, 60001, was evaluated and is alert.
C6_Witness ==
    /\ OnLive
    /\ Labels[1] = "Temperature: "
    /\ MilliRead = 60001
    /\ view.lines[1].color = "Red"

\* C7: a Network directory gives "Link State: <operstate>", normal iff the
\* value is "up"; then "MAC: <address>" iff address reads non-empty; then
\* "Data Rx: <rx_bytes> bytes" iff rx_bytes reads non-empty; nothing else.
NetworkLines(macLabel, rxLabel) ==
    <<<<"Link State: ", Read("operstate"), "">>>>
      \o (IF Read("address") # <<>> THEN <<<<macLabel, Read("address"), "">>>> ELSE <<>>)
      \o (IF Read("rx_bytes") # <<>> THEN <<<<rxLabel, Read("rx_bytes"), " bytes">>>> ELSE <<>>)

IsNetwork == OnLive /\ FirstKind = "Network"

C7_Network ==
    IsNetwork =>
        /\ [i \in 1..Len(view.lines) |-> LineText(i)] = NetworkLines("MAC: ", "Data Rx: ")
        /\ view.lines[1].color = (IF Read("operstate") = <<"u", "p">> THEN "Green" ELSE "Red")

\* C7 in the driver program alone.
C7_Network_main == program = "main" => C7_Network

\* C8: a Power directory gives exactly "Battery Level: <capacity>%" and then
\* "Status: <status>", also when capacity or status reads "".
C8_Power ==
    (OnLive /\ FirstKind = "Power") =>
        [i \in 1..Len(view.lines) |-> LineText(i)] =
            << <<"Battery Level: ", Read("capacity"), "%">>,
               <<"Status: ", Read("status"), "">> >>

\* A battery whose capacity file is there and empty, with no status.
C8_Witness ==
    /\ OnLive
    /\ FirstKind = "Power"
    /\ Read("capacity") = <<>>
    /\ Read("status") = <<>>
    /\ Len(view.lines) = 2

\* The attribute a line shows, by its label.
ShownAttr(label) ==
    CASE label = "Sensor Type: " -> "type"
      [] label = "Link State: " -> "operstate"
      [] label \in {"MAC: ", "MAC Address: "} -> "address"
      [] label \in {"Data Rx: ", "Total Data Rx: "} -> "rx_bytes"
      [] label = "Battery Level: " -> "capacity"
      [] label = "Status: " -> "status"
      [] OTHER -> "none"

\* C9: the output depends on the directory's contents at the evaluation only:
\* a second evaluation of an unchanged directory repeats the first one's
\* lines, and every value shown is the content read at this evaluation, never
\* an earlier one.
C9_Stateless ==
    view.shown =>
        /\ view.prev # <<>> => view.prev = view.lines
        /\ \A i \in 1..Len(view.lines) :
              /\ ShownAttr(Labels[i]) # "none" =>
                    view.lines[i].value = Read(ShownAttr(Labels[i]))
              /\ Labels[i] = "Temperature: " =>
                    /\ Read("temp") # <<>>
                    /\ ~stof(Read("temp")).thrown
                    /\ view.lines[i] = TemperatureLine(DivBy1000(stof(Read("temp"))))

\* The same directory was evaluated twice in a row and shows a link state.
C9_Witness ==
    /\ OnLive
    /\ view.prev # <<>>
    /\ Labels[1] = "Link State: "
    /\ Len(view.lines) = 3

\* C10: for 0 <= m <= 120000 the temperature text has exactly one digit
\* after the decimal point and is the degrees value to one decimal place
\* (cut or rounded); temp = "45000" alone shows 45.0, normal, no Sensor Type.
OneDecimal(tenths) ==
    NatToStr(tenths \div 10) \o <<".">> \o NatToStr(tenths % 10)

C10_OneDecimal ==
    (OnLive /\ "temp" \in view.probed /\ Read("temp") # <<>> /\ MilliRead >= 0) =>
        /\ Labels[1] = "Temperature: "
        /\ view.lines[1].value \in
              {OneDecimal(MilliRead \div 100), OneDecimal((MilliRead + 50) \div 100)}

\* The part of C10 about temp = "45000" alone.
C10_Example ==
    (OnLive /\ view.probed = {"temp"} /\ MilliRead = 45000 /\ Read("temp") # <<>>) =>
        /\ Labels = <<"Temperature: ">>
        /\ view.lines[1].value = <<"4", "5", ".", "0">>
        /\ view.lines[1].color = "Green"

====
